---- MODULE Spec2Model ----
(***************************************************************************)
(* Model of the QKD log pipeline of services/geminiService.ts:             *)
(*   - calculateSecureSKR_deterministic, the finite-key SKR calculator     *)
(*     ("computeSKR"),                                                      *)
(*   - preParseWithRegex, the regex pre-extractor ("extract"),             *)
(*   - the provenance reconciliation at the end of normalizeLogs           *)
(*     ("merge").                                                           *)
(*                                                                         *)
(* JavaScript numbers are modelled as IEEE-like values: a finite value in  *)
(* fixed point (an integer count of 1/Scale), or one of NaN, +Infinity,    *)
(* -Infinity.  Arithmetic on finite values rounds toward zero at the       *)
(* resolution 1/Scale; the special values follow IEEE 754 (x/0, Inf*0,     *)
(* log2 and sqrt of a negative number, comparisons with NaN).              *)
(***************************************************************************)
EXTENDS Integers, Sequences, FiniteSets, TLC

VARIABLES
    data,       \* calculator: the record handed to calculateSecureSKR_deterministic
    skr,        \* calculator: how the call completed, and the FiniteKeyCalculation
    logs,       \* normalizeLogs: its argument, the raw text
    stage,      \* normalizeLogs: "start", "awaiting" (the LLM call), "returned", "rejected"
    pre,        \* normalizeLogs: what preParseWithRegex(logs) gave
    llmResult,  \* normalizeLogs: the parsed LLM response, as received
    norm,       \* normalizeLogs: the record it returns
    extractCalls,  \* repeated calls: the calls of preParseWithRegex, in order
    skrCalls,      \* repeated calls: the calls of the calculator, in order
    app,        \* App: the component's state (view, rawLogs, appOutput, error, processingStep)
    runs,       \* App: the calls of runPipeline, in the order they were requested
    requested   \* App: the most recent run or New Run the user asked for

normVars == <<logs, stage, pre, llmResult, norm>>
\* the (input, output) pairs of the calls made so far, for the claims that
\* compare one call with another
callVars == <<extractCalls, skrCalls>>
appVars == <<app, runs, requested>>
vars == <<data, skr, logs, stage, pre, llmResult, norm, extractCalls, skrCalls, app, runs, requested>>

(***************************************************************************)
(* JavaScript values: numbers, null and undefined.                         *)
(***************************************************************************)
Scale == 1000

Num(n) == [t |-> "num", v |-> n, s |-> <<>>]
NaN == [t |-> "nan", v |-> 0, s |-> <<>>]
PInf == [t |-> "pinf", v |-> 0, s |-> <<>>]
NInf == [t |-> "ninf", v |-> 0, s |-> <<>>]
Null == [t |-> "null", v |-> 0, s |-> <<>>]
Undefined == [t |-> "undefined", v |-> 0, s |-> <<>>]

\* x == null  (true of null and of undefined)
EqNull(x) == x.t \in {"null", "undefined"}
\* ToBoolean(x) for a number, null or undefined
Truthy(x) ==
    \/ x.t \in {"pinf", "ninf"}
    \/ x.t = "num" /\ x.v # 0

Abs(n) == IF n < 0 THEN -n ELSE n

\* integer quotient rounded toward zero, b # 0
QuoT(a, b) ==
    IF (a >= 0) = (b > 0) THEN Abs(a) \div Abs(b) ELSE -(Abs(a) \div Abs(b))

\* sign of a number value: -1, 0, 1 (NaN has none and is handled by the callers)
Sign(x) ==
    CASE x.t = "pinf" -> 1
      [] x.t = "ninf" -> -1
      [] x.t = "num" -> (IF x.v > 0 THEN 1 ELSE IF x.v < 0 THEN -1 ELSE 0)
      [] OTHER -> 0

SignedInf(s) == IF s > 0 THEN PInf ELSE NInf

\* a < b, a > b: false as soon as one side is NaN
FLt(a, b) ==
    CASE a.t = "nan" \/ b.t = "nan" -> FALSE
      [] a.t = "num" /\ b.t = "num" -> a.v < b.v
      [] a.t = "ninf" -> b.t # "ninf"
      [] b.t = "pinf" -> a.t # "pinf"
      [] OTHER -> FALSE
FGt(a, b) == FLt(b, a)
FLe(a, b) == FLt(a, b) \/ (a.t # "nan" /\ a = b)
FGe(a, b) == FLe(b, a)

FNeg(a) ==
    CASE a.t = "num" -> Num(-a.v)
      [] a.t = "pinf" -> NInf
      [] a.t = "ninf" -> PInf
      [] OTHER -> NaN

FAdd(a, b) ==
    CASE a.t = "nan" \/ b.t = "nan" -> NaN
      [] a.t = "num" /\ b.t = "num" -> Num(a.v + b.v)
      [] a.t = "num" -> b
      [] b.t = "num" -> a
      [] a.t = b.t -> a
      [] OTHER -> NaN
FSub(a, b) == FAdd(a, FNeg(b))

FMul(a, b) ==
    CASE a.t = "nan" \/ b.t = "nan" -> NaN
      [] a.t = "num" /\ b.t = "num" -> Num(QuoT(a.v * b.v, Scale))
      [] Sign(a) = 0 \/ Sign(b) = 0 -> NaN
      [] OTHER -> SignedInf(Sign(a) * Sign(b))

FDiv(a, b) ==
    CASE a.t = "nan" \/ b.t = "nan" -> NaN
      [] a.t = "num" /\ b.t = "num" ->
            IF b.v # 0 THEN Num(QuoT(a.v * Scale, b.v))
            ELSE IF a.v = 0 THEN NaN ELSE SignedInf(Sign(a))
      [] a.t = "num" -> Num(0)
      [] b.t = "num" -> SignedInf(Sign(a) * (IF b.v < 0 THEN -1 ELSE 1))
      [] OTHER -> NaN

\* floor of the square root of a natural number
RECURSIVE ISqrtBits(_, _, _)
ISqrtBits(n, r, bit) ==
    IF bit = 0 THEN r
    ELSE IF (r + bit) * (r + bit) <= n THEN ISqrtBits(n, r + bit, bit \div 2)
         ELSE ISqrtBits(n, r, bit \div 2)
ISqrt(n) == ISqrtBits(n, 0, 16384)

\* Math.sqrt
FSqrt(a) ==
    CASE a.t = "num" -> IF a.v < 0 THEN NaN ELSE Num(ISqrt(a.v * Scale))
      [] a.t = "pinf" -> PInf
      [] OTHER -> NaN

\* log2 of a positive fixed-point value m (m/Scale), in units of 1/Scale:
\* the integer part by halving or doubling into [1, 2), then the fraction
\* bit by bit by squaring.
RECURSIVE Log2Frac(_, _, _)
Log2Frac(y, k, w) ==
    IF k > 10 THEN 0
    ELSE LET y2 == (y * y) \div Scale
         IN IF y2 >= 2 * Scale
            THEN w + Log2Frac(y2 \div 2, k + 1, w \div 2)
            ELSE Log2Frac(y2, k + 1, w \div 2)
RECURSIVE Log2Pos(_)
Log2Pos(m) ==
    IF m >= 2 * Scale THEN Scale + Log2Pos(m \div 2)
    ELSE IF m < Scale THEN Log2Pos(2 * m) - Scale
    ELSE Log2Frac(m, 1, Scale \div 2)

\* Math.log2
FLog2(a) ==
    CASE a.t = "num" ->
            IF a.v < 0 THEN NaN ELSE IF a.v = 0 THEN NInf ELSE Num(Log2Pos(a.v))
      [] a.t = "pinf" -> PInf
      [] OTHER -> NaN

(***************************************************************************)
(* The calculator's input: a QKDNormalizedV1 record, or null.  Only the    *)
(* sections and fields the calculator reads are kept.  A section that is   *)
(* absent has present = FALSE, and data.section?.field is then undefined.  *)
(***************************************************************************)
NullData == [isNull |-> TRUE,
             security |-> [present |-> FALSE, sifted_key_rate_bps |-> Undefined,
                           qber_total |-> Undefined, sifted_bits |-> Undefined,
                           epsilon_sec |-> Undefined, epsilon_cor |-> Undefined,
                           epsilon |-> Undefined],
             dv_specific |-> [present |-> FALSE, ec_efficiency_beta |-> Undefined]]

\* data.security?.f and data.dv_specific?.f
SecurityField(d, f) == IF d.security.present THEN d.security[f] ELSE Undefined
DvField(d, f) == IF d.dv_specific.present THEN d.dv_specific[f] ELSE Undefined

EQUATION == "R_secure_bps = (S/N) * [N * (1 - h2(Q)) - (N * h2(Q) * beta) - Delta]"

BETA_DEFAULT == 1100
QBER_LIMIT == 110

\* one SKRTraceEntry, as addTrace pushes it
TraceEntry(step, value, formula) == [step |-> step, value |-> value, formula |-> formula]
addTrace(trace, step, value, formula) == Append(trace, TraceEntry(step, value, formula))

\* the thrown Error objects, by what their message says
NoError == [kind |-> "none", missing |-> <<>>, Q |-> Undefined]
MissingError(missing) == [kind |-> "missing", missing |-> missing, Q |-> Undefined]
ThresholdError(q) == [kind |-> "threshold", missing |-> <<>>, Q |-> q]
TypeError == [kind |-> "TypeError", missing |-> <<>>, Q |-> Undefined]

EmptyObject == [k \in {} |-> Undefined]

\* binary entropy
h2(q) ==
    IF FLe(q, Num(0)) \/ FGe(q, Num(Scale)) THEN Num(0)
    ELSE FSub(FMul(FNeg(q), FLog2(q)),
              FMul(FSub(Num(Scale), q), FLog2(FSub(Num(Scale), q))))

\* the secure rate clamped at zero
Clamp(r) == IF FLt(r, Num(0)) THEN Num(0) ELSE r

\* mutant: the check stops at the first missing field
MissingFields_FirstOnly(S_bps, Q_raw, N, eps_sec, eps_cor) ==
    IF EqNull(S_bps) THEN <<"security.sifted_key_rate_bps">>
    ELSE IF EqNull(Q_raw) THEN <<"security.qber_total">>
    ELSE IF EqNull(N) THEN <<"security.sifted_bits">>
    ELSE IF EqNull(eps_sec) THEN <<"security.epsilon_sec (or epsilon)">>
    ELSE IF EqNull(eps_cor) THEN <<"security.epsilon_cor (or epsilon)">>
    ELSE <<>>

\* the names of the required inputs that are still null or undefined
MissingFields(S_bps, Q_raw, N, eps_sec, eps_cor) ==
    (IF EqNull(S_bps) THEN <<"security.sifted_key_rate_bps">> ELSE <<>>)
    \o (IF EqNull(Q_raw) THEN <<"security.qber_total">> ELSE <<>>)
    \o (IF EqNull(N) THEN <<"security.sifted_bits">> ELSE <<>>)
    \o (IF EqNull(eps_sec) THEN <<"security.epsilon_sec (or epsilon)">> ELSE <<>>)
    \o (IF EqNull(eps_cor) THEN <<"security.epsilon_cor (or epsilon)">> ELSE <<>>)

\* mutant: the beta entry is written after the other five input entries
InputTrace_BetaLast(trace, S_bps, Q_raw, beta, N, eps_sec, eps_cor) ==
    trace \o << TraceEntry("Sifted Rate (S)", S_bps, "Input"),
                TraceEntry("QBER (Q)", Q_raw, "Input"),
                TraceEntry("Block Size (N)", N, "Input"),
                TraceEntry("eps_sec", eps_sec, "Input"),
                TraceEntry("eps_cor", eps_cor, "Input"),
                TraceEntry("EC Efficiency (beta)", beta, "Input or Default") >>

\* the six "Input" trace entries
InputTrace(trace, S_bps, Q_raw, beta, N, eps_sec, eps_cor) ==
    trace \o << TraceEntry("Sifted Rate (S)", S_bps, "Input"),
                TraceEntry("QBER (Q)", Q_raw, "Input"),
                TraceEntry("EC Efficiency (beta)", beta, "Input or Default"),
                TraceEntry("Block Size (N)", N, "Input"),
                TraceEntry("eps_sec", eps_sec, "Input"),
                TraceEntry("eps_cor", eps_cor, "Input") >>

\* mutant: the threshold compared with >= instead of >
ExceedsLimit_AtLimit(Q_raw) == FGe(Q_raw, Num(QBER_LIMIT))

\* the QBER threshold check
ExceedsLimit(Q_raw) == FGt(Q_raw, Num(QBER_LIMIT))

\* a completion of the try block: a returned result, or a thrown error together
\* with the trace array as it stands at the throw
Returned(result) == [completion |-> "return", result |-> result]
Thrown(error, trace) == [completion |-> "throw", error |-> error, trace |-> trace]

\* the arithmetic of the try block, from h2 to the success result
Compute(trace, S_bps, Q_raw, beta, N, eps_sec, eps_cor) ==
    LET h2_Q == h2(Q_raw)
        t1 == addTrace(trace, "h2(Q)", h2_Q, "-Q*log2(Q) - (1-Q)*log2(1-Q)")
        leakage_ec_bits == FMul(FMul(N, h2_Q), beta)
        t2 == addTrace(t1, "Leak_EC", leakage_ec_bits, "N * h2(Q) * beta")
        finite_penalty_bits ==
            FAdd(FMul(Num(2 * Scale), FLog2(FDiv(Num(Scale), eps_cor))),
                 FMul(FMul(Num(4 * Scale),
                           FLog2(FDiv(Num(Scale), FMul(Num(2 * Scale), eps_sec)))),
                      FSqrt(FMul(FMul(N, Q_raw), FSub(Num(Scale), Q_raw)))))
        t3 == addTrace(t2, "Delta (Penalty)", finite_penalty_bits, "Finite-size penalty term")
        R_secure_bits == FSub(FSub(FMul(N, FSub(Num(Scale), h2_Q)), leakage_ec_bits),
                              finite_penalty_bits)
        t4 == addTrace(t3, "R_secure_bits", R_secure_bits, "N*(1 - h2(Q)) - Leak_EC - Delta")
        R_secure_bps == Clamp(FMul(FDiv(R_secure_bits, N), S_bps))
        t5 == addTrace(t4, "R_secure_bps", R_secure_bps,
                       "(R_secure_bits / N) * S_bps (clamped to 0)")
    IN Returned([equation |-> EQUATION,
                 inputs |-> [S_bps |-> S_bps, Q |-> Q_raw, beta |-> beta, N |-> N,
                             eps_sec |-> eps_sec, eps_cor |-> eps_cor],
                 intermediates |-> [h2_Q |-> h2_Q, leakage_ec_bits |-> leakage_ec_bits,
                                    finite_penalty_bits |-> finite_penalty_bits],
                 R_secure_bps |-> R_secure_bps,
                 error |-> NoError,
                 trace |-> t5])

\* mutant: the default also replaces a present beta that is falsy (0)
BetaOrDefault_Falsy(beta) == IF Truthy(beta) THEN beta ELSE Num(BETA_DEFAULT)

\* if (beta == null) beta = 1.1
BetaOrDefault(beta) == IF EqNull(beta) THEN Num(BETA_DEFAULT) ELSE beta

\* mutant: the trace array is kept between calls, so a call starts from the
\* entries of the call before it
NewTrace_Shared == IF skr.completion = "return" THEN skr.result.trace ELSE <<>>

\* const trace = []: every call starts with an array of its own
NewTrace == <<>>

\* the try block: reading data.security of a null record throws a TypeError
TryBlock(d) ==
    IF d.isNull THEN Thrown(TypeError, NewTrace)
    ELSE
    LET S_bps == SecurityField(d, "sifted_key_rate_bps")
        Q_raw == SecurityField(d, "qber_total")
        beta0 == DvField(d, "ec_efficiency_beta")
        N == SecurityField(d, "sifted_bits")
        eps_sec0 == SecurityField(d, "epsilon_sec")
        eps_cor0 == SecurityField(d, "epsilon_cor")
        single_eps == SecurityField(d, "epsilon")
        useSingle == Truthy(single_eps) /\ EqNull(eps_sec0) /\ EqNull(eps_cor0)
        eps_sec == IF useSingle THEN single_eps ELSE eps_sec0
        eps_cor == IF useSingle THEN single_eps ELSE eps_cor0
        t1 == IF useSingle
              THEN addTrace(NewTrace, "Epsilon", single_eps, "Used single epsilon for both sec/cor")
              ELSE NewTrace
        beta == BetaOrDefault(beta0)
        t2 == IF EqNull(beta0)
              THEN addTrace(t1, "EC Efficiency (beta)", beta, "Default value assumed")
              ELSE t1
        missing == MissingFields(S_bps, Q_raw, N, eps_sec, eps_cor)
        t3 == InputTrace(t2, S_bps, Q_raw, beta, N, eps_sec, eps_cor)
    IN IF Len(missing) > 0 THEN Thrown(MissingError(missing), t2)
       ELSE IF ExceedsLimit(Q_raw) THEN Thrown(ThresholdError(Q_raw), t3)
       ELSE Compute(t3, S_bps, Q_raw, beta, N, eps_sec, eps_cor)

\* mutant: a failure result that reports a rate of 0 instead of null
FailureResult_ZeroRate(error, trace) ==
    [equation |-> EQUATION, inputs |-> EmptyObject, intermediates |-> EmptyObject,
     R_secure_bps |-> Num(0), error |-> error, trace |-> trace]

\* the result the catch clause builds from the thrown error and the trace array
FailureResult(error, trace) ==
    [equation |-> EQUATION, inputs |-> EmptyObject, intermediates |-> EmptyObject,
     R_secure_bps |-> Null, error |-> error, trace |-> trace]

\* mutant: a catch clause that handles the thrown validation errors only and
\* lets a TypeError escape
CatchClause_Rethrow(thrown) ==
    IF thrown.error.kind = "TypeError" THEN thrown
    ELSE Returned(FailureResult(thrown.error, thrown.trace))

\* mutant: a catch clause that returns a fresh, empty trace
CatchClause_DropTrace(thrown) == Returned(FailureResult(thrown.error, <<>>))

\* the catch clause: the error becomes a returned result, with the trace so far
CatchClause(thrown) == Returned(FailureResult(thrown.error, thrown.trace))

calculateSecureSKR_deterministic(d) ==
    LET c == TryBlock(d)
    IN IF c.completion = "throw" THEN CatchClause(c) ELSE c

(***************************************************************************)
(* Strings are sequences of one-character strings.                         *)
(***************************************************************************)
Str(s) == [t |-> "str", v |-> 0, s |-> s]

WhiteSpace == {" ", "\n"}
Range(seq) == {seq[i] : i \in 1..Len(seq)}

\* String.prototype.trim
RECURSIVE TrimStart(_)
TrimStart(s) == IF s # <<>> /\ Head(s) \in WhiteSpace THEN TrimStart(Tail(s)) ELSE s
RECURSIVE TrimEnd(_)
TrimEnd(s) ==
    IF s # <<>> /\ s[Len(s)] \in WhiteSpace THEN TrimEnd(SubSeq(s, 1, Len(s) - 1)) ELSE s
Trim(s) == TrimEnd(TrimStart(s))

startsWith(s, c) == s # <<>> /\ s[1] = c
endsWith(s, c) == s # <<>> /\ s[Len(s)] = c
includes(s, c) == c \in Range(s)

\* the index of the first c in s, or 0
RECURSIVE IndexFrom(_, _, _)
IndexFrom(s, c, i) ==
    IF i > Len(s) THEN 0 ELSE IF s[i] = c THEN i ELSE IndexFrom(s, c, i + 1)
indexOf(s, c) == IndexFrom(s, c, 1)

\* logs.split('\n')
RECURSIVE split(_)
split(s) ==
    LET i == indexOf(s, "\n")
    IN IF i = 0 THEN <<s>> ELSE <<SubSeq(s, 1, i - 1)>> \o split(SubSeq(s, i + 1, Len(s)))

\* lines.join('\n')
RECURSIVE join(_)
join(lines) ==
    IF lines = <<>> THEN <<>>
    ELSE IF Len(lines) = 1 THEN lines[1]
    ELSE lines[1] \o <<"\n">> \o join(Tail(lines))

\* String.prototype.toLowerCase, on the letters of the model's alphabet
LowerChar(c) ==
    CASE c = "A" -> "a" [] c = "B" -> "b" [] c = "M" -> "m" [] c = "V" -> "v" [] OTHER -> c
toLowerCase(s) == [i \in 1..Len(s) |-> LowerChar(s[i])]

\* key.replace(/\s+/g, '_'): every run of whitespace becomes one underscore
RECURSIVE ReplaceSpaceRuns(_)
ReplaceSpaceRuns(s) ==
    IF s = <<>> THEN <<>>
    ELSE IF Head(s) \in WhiteSpace THEN <<"_">> \o ReplaceSpaceRuns(TrimStart(s))
    ELSE <<Head(s)>> \o ReplaceSpaceRuns(Tail(s))

\* value.replace(/_/g, '')
RemoveUnderscores(s) == SelectSeq(s, LAMBDA c : c # "_")

(***************************************************************************)
(* Number(string): optional sign, digits with an optional fraction, an     *)
(* optional exponent; the empty (or blank) string is 0; anything else NaN. *)
(* The value is kept to the resolution 1/Scale.                            *)
(***************************************************************************)
Digits == {"0", "1", "2", "3", "4", "5", "6", "7", "8", "9"}
DigitValue(c) ==
    CASE c = "0" -> 0 [] c = "1" -> 1 [] c = "2" -> 2 [] c = "3" -> 3 [] c = "4" -> 4
      [] c = "5" -> 5 [] c = "6" -> 6 [] c = "7" -> 7 [] c = "8" -> 8 [] c = "9" -> 9
AllDigits(s) == \A i \in 1..Len(s) : s[i] \in Digits
RECURSIVE DigitsValue(_, _)
DigitsValue(s, acc) == IF s = <<>> THEN acc ELSE DigitsValue(Tail(s), 10 * acc + DigitValue(Head(s)))
RECURSIVE Pow10(_)
Pow10(n) == IF n = 0 THEN 1 ELSE 10 * Pow10(n - 1)

\* an unsigned decimal without exponent, as a count of 1/Scale; -1 if malformed
UnsignedDecimal(s) ==
    LET d == indexOf(s, ".")
        ip == IF d = 0 THEN s ELSE SubSeq(s, 1, d - 1)
        fp == IF d = 0 THEN <<>> ELSE SubSeq(s, d + 1, Len(s))
        fp3 == SubSeq(fp \o <<"0", "0", "0">>, 1, 3)
    IN IF (ip = <<>> /\ fp = <<>>) \/ ~AllDigits(ip) \/ ~AllDigits(fp) THEN -1
       ELSE DigitsValue(ip, 0) * Scale + DigitsValue(fp3, 0)

ToNumber(str) ==
    LET s == Trim(str)
        neg == startsWith(s, "-")
        u == IF neg \/ startsWith(s, "+") THEN Tail(s) ELSE s
        e == indexOf(u, "e")
        m == UnsignedDecimal(IF e = 0 THEN u ELSE SubSeq(u, 1, e - 1))
        x == IF e = 0 THEN <<>> ELSE SubSeq(u, e + 1, Len(u))
        xneg == startsWith(x, "-")
        xd == IF xneg \/ startsWith(x, "+") THEN Tail(x) ELSE x
        scaled == IF e = 0 THEN m
                  ELSE IF xneg THEN m \div Pow10(DigitsValue(xd, 0))
                  ELSE m * Pow10(DigitsValue(xd, 0))
    IN IF s = <<>> THEN Num(0)
       ELSE IF m < 0 \/ (e # 0 /\ (xd = <<>> \/ ~AllDigits(xd))) THEN NaN
       ELSE Num(IF neg THEN -scaled ELSE scaled)

(***************************************************************************)
(* preParseWithRegex                                                       *)
(***************************************************************************)
keyMap ==
    (<<"v", "e", "n", "d", "o", "r">> :> "meta.vendor")
    @@ (<<"m", "o", "d", "e", "l">> :> "meta.model")
    @@ (<<"r", "u", "n", "_", "i", "d">> :> "meta.run_id")
    @@ (<<"p", "r", "o", "t", "o", "c", "o", "l">> :> "meta.protocol")
    @@ (<<"l", "i", "n", "k", "_", "t", "y", "p", "e">> :> "meta.link_type")
    @@ (<<"p", "r", "o", "f", "i", "l", "e">> :> "meta.profile")
    @@ (<<"f", "i", "r", "m", "w", "a", "r", "e", "_", "v", "e", "r", "s", "i", "o", "n">> :> "meta.firmware_version")
    @@ (<<"t", "i", "m", "e", "s", "t", "a", "m", "p">> :> "meta.timestamp")
    @@ (<<"d", "i", "s", "t", "a", "n", "c", "e", "_", "k", "m">> :> "link.distance_km")
    @@ (<<"f", "i", "b", "e", "r", "_", "l", "o", "s", "s", "_", "d", "b">> :> "link.fiber_loss_dB")
    @@ (<<"a", "l", "p", "h", "a", "_", "d", "b", "_", "p", "e", "r", "_", "k", "m">> :> "link.alpha_dB_per_km")
    @@ (<<"e", "p", "s", "i", "l", "o", "n">> :> "security.epsilon")
    @@ (<<"q", "b", "e", "r", "_", "t", "o", "t", "a", "l">> :> "security.qber_total")
    @@ (<<"s", "i", "f", "t", "e", "d", "_", "b", "i", "t", "s">> :> "security.sifted_bits")
    @@ (<<"s", "i", "f", "t", "e", "d", "_", "k", "e", "y", "_", "r", "a", "t", "e", "_", "b", "p", "s">> :> "security.sifted_key_rate_bps")
    @@ (<<"b", "a", "s", "i", "s", "_", "r", "e", "c", "o", "n", "c", "i", "l", "i", "a", "t", "i", "o", "n">> :> "security.basis_reconciliation")
    @@ (<<"a", "u", "t", "h", "e", "n", "t", "i", "c", "a", "t", "i", "o", "n">> :> "security.authentication")
    @@ (<<"c", "o", "u", "n", "t", "_", "r", "a", "t", "e", "_", "m", "c", "p", "s">> :> "detector.count_rate_Mcps")
    @@ (<<"d", "e", "t", "e", "c", "t", "o", "r", "_", "c", "o", "u", "n", "t", "_", "r", "a", "t", "e", "_", "m", "c", "p", "s">> :> "detector.count_rate_Mcps")
    @@ (<<"m", "a", "x", "_", "m", "c", "p", "s">> :> "detector.max_Mcps")
    @@ (<<"d", "e", "t", "e", "c", "t", "o", "r", "_", "m", "a", "x", "_", "m", "c", "p", "s">> :> "detector.max_Mcps")

\* mutant: what the table inherits is taken for a path like any other
Lookup_Inherited(key) ==
    IF key \in DOMAIN keyMap THEN [kind |-> "path", path |-> keyMap[key]]
    ELSE IF key \in {<<"c", "o", "n", "s", "t", "r", "u", "c", "t", "o", "r">>,
                     <<"_", "_", "p", "r", "o", "t", "o", "_", "_">>}
         THEN [kind |-> "path", path |-> "constructor"]
    ELSE [kind |-> "undefined", path |-> ""]

\* keyMap[key]: an own key gives its path; "constructor" and "__proto__" give
\* what the object literal inherits from Object.prototype (truthy, not a
\* string); any other key gives undefined
InheritedKeys == {<<"c", "o", "n", "s", "t", "r", "u", "c", "t", "o", "r">>, <<"_", "_", "p", "r", "o", "t", "o", "_", "_">>}
Lookup(key) ==
    IF key \in DOMAIN keyMap THEN [kind |-> "path", path |-> keyMap[key]]
    ELSE IF key \in InheritedKeys THEN [kind |-> "inherited", path |-> ""]
    ELSE [kind |-> "undefined", path |-> ""]

\* line.match(/^\s*([^:]+):\s*(.+)\s*$/): the first colon must have a
\* character before it and one after it.  key and value are the two groups
\* after the trim() the code applies to each (and key normalised).
Matches(line) ==
    LET c == indexOf(line, ":") IN c >= 2 /\ c < Len(line)
MatchKey(line) ==
    ReplaceSpaceRuns(toLowerCase(Trim(SubSeq(line, 1, indexOf(line, ":") - 1))))
MatchValue(line) == Trim(SubSeq(line, indexOf(line, ":") + 1, Len(line)))

\* mutant: the value is converted with its underscores still in it
Coerce_Raw(value) ==
    LET numValue == ToNumber(value)
    IN IF numValue # NaN /\ Trim(value) # <<>> THEN numValue ELSE Str(value)

\* the value setNestedValue stores: the number when the value without its
\* underscores is numeric and not blank, else the value string itself
Coerce(value) ==
    LET cleanedValue == RemoveUnderscores(value)
        numValue == ToNumber(cleanedValue)
    IN IF numValue # NaN /\ Trim(cleanedValue) # <<>> THEN numValue ELSE Str(value)

\* setNestedValue(obj, path, value) on the record's fields, kept as a map
\* from the dotted path to the value
setNestedValue(fields, path, value) == (path :> Coerce(value)) @@ fields

\* the ProvenanceEntry pushed for a recognised line
PreParsedEntry(path, line) ==
    [field |-> path, snippet |-> Trim(line), confidence_score |-> Num(Scale)]

EmptyPreParsed == [fields |-> <<>>, _provenance |-> <<>>]

\* the guard: the input looks like JSON or CSV
LooksLikeJsonOrCsv(text) ==
    LET lines == split(text)
        trimmedLogs == Trim(text)
    IN \/ startsWith(trimmedLogs, "{") /\ endsWith(trimmedLogs, "}")
       \/ startsWith(trimmedLogs, "[") /\ endsWith(trimmedLogs, "]")
       \/ includes(lines[1], ",")

\* mutant: the guard hands back the trimmed text
GuardReturn_Trimmed(text) ==
    [completion |-> "return", preParsedData |-> EmptyPreParsed, remainingLogs |-> Trim(text)]

\* what the guard returns: nothing parsed, the whole input left
GuardReturn(text) ==
    [completion |-> "return", preParsedData |-> EmptyPreParsed, remainingLogs |-> text]

\* mutant: a recognised line sets its value but its provenance entry is not pushed
ScanLine_NoProvenance(acc, line) ==
    IF ~Matches(line) THEN [acc EXCEPT !.remainingLines = Append(@, line)]
    ELSE LET found == Lookup(MatchKey(line))
         IN CASE found.kind = "undefined" -> [acc EXCEPT !.remainingLines = Append(@, line)]
              [] found.kind = "inherited" -> [acc EXCEPT !.thrown = TRUE]
              [] OTHER ->
                   [acc EXCEPT !.fields = setNestedValue(@, found.path, MatchValue(line))]

\* mutant: a "key: value" line whose key is not in the table is dropped
ScanLine_DropUnknown(acc, line) ==
    IF ~Matches(line) THEN [acc EXCEPT !.remainingLines = Append(@, line)]
    ELSE LET found == Lookup(MatchKey(line))
         IN CASE found.kind = "undefined" -> acc
              [] found.kind = "inherited" -> [acc EXCEPT !.thrown = TRUE]
              [] OTHER ->
                   [acc EXCEPT !.fields = setNestedValue(@, found.path, MatchValue(line)),
                               !._provenance = Append(@, PreParsedEntry(found.path, line))]

\* the body of lines.forEach for one line, on the accumulated
\* preParsedData fields and _provenance and the remainingLines
ScanLine(acc, line) ==
    IF ~Matches(line) THEN [acc EXCEPT !.remainingLines = Append(@, line)]
    ELSE LET found == Lookup(MatchKey(line))
         IN CASE found.kind = "undefined" -> [acc EXCEPT !.remainingLines = Append(@, line)]
              \* path.split is not a function
              [] found.kind = "inherited" -> [acc EXCEPT !.thrown = TRUE]
              [] OTHER ->
                   [acc EXCEPT !.fields = setNestedValue(@, found.path, MatchValue(line)),
                               !._provenance = Append(@, PreParsedEntry(found.path, line))]

RECURSIVE ScanLines(_, _)
ScanLines(acc, lines) ==
    IF lines = <<>> \/ acc.thrown THEN acc
    ELSE ScanLines(ScanLine(acc, Head(lines)), Tail(lines))

preParseWithRegex(text) ==
    IF LooksLikeJsonOrCsv(text) THEN GuardReturn(text)
    ELSE LET acc == ScanLines([fields |-> <<>>, _provenance |-> <<>>,
                               remainingLines |-> <<>>, thrown |-> FALSE], split(text))
         IN [completion |-> IF acc.thrown THEN "throw" ELSE "return",
             preParsedData |-> [fields |-> acc.fields, _provenance |-> acc._provenance],
             remainingLogs |-> Trim(join(acc.remainingLines))]

(***************************************************************************)
(* normalizeLogs: the pre-parse, the LLM call, and the reconciliation of   *)
(* the provenance array.                                                    *)
(***************************************************************************)
\* llmResult._provenance || []
ProvenanceOrEmpty(p) == IF p.present THEN p.entries ELSE <<>>

\* mutant: the LLM entries are put first
Reconcile_LlmFirst(preParsedData, llm) ==
    LET preParsedFields == {p.field : p \in Range(preParsedData._provenance)}
        uniqueLlmProvenance ==
            SelectSeq(ProvenanceOrEmpty(llm._provenance),
                      LAMBDA p : p.field \notin preParsedFields)
    IN [llm EXCEPT !._provenance =
           [present |-> TRUE, entries |-> uniqueLlmProvenance \o preParsedData._provenance]]

\* lines 118-120: the pre-parsed entries, then the LLM entries whose field
\* the pre-parser did not report; the record itself is the LLM's
Reconcile(preParsedData, llm) ==
    LET preParsedFields == {p.field : p \in Range(preParsedData._provenance)}
        uniqueLlmProvenance ==
            SelectSeq(ProvenanceOrEmpty(llm._provenance),
                      LAMBDA p : p.field \notin preParsedFields)
    IN [llm EXCEPT !._provenance =
           [present |-> TRUE, entries |-> preParsedData._provenance \o uniqueLlmProvenance]]

(***************************************************************************)
(* The inputs of normalizeLogs: texts of up to MaxLines lines taken from   *)
(* LineCatalogue, and LLM responses with a value for each tracked path and *)
(* up to MaxLow provenance entries.                                         *)
(***************************************************************************)
MaxLines == 2
MaxLow == 2

LineCatalogue ==
    { <<"v", "e", "n", "d", "o", "r", ":", " ", "A">>,
      <<" ", " ", "V", "e", "n", "d", "o", "r", ":", " ", "B">>,
      <<"q", "b", "e", "r", "_", "t", "o", "t", "a", "l", ":", " ", "0", ".", "0", "2">>,
      <<"M", "a", "x", " ", "M", "c", "p", "s", ":", " ", "2">>,
      <<"a", ",", "b">>,
      <<"{", "a", ":", "1", "}">>,
      <<"[", "1", "]">>,
      <<>>,
      <<"n", "o", "t", "e", ":", " ", "x">>,
      <<"c", "o", "n", "s", "t", "r", "u", "c", "t", "o", "r", ":", " ", "x">> }

RECURSIVE SeqsUpTo(_, _)
SeqsUpTo(S, n) ==
    IF n = 0 THEN {<<>>}
    ELSE LET shorter == SeqsUpTo(S, n - 1)
         IN shorter \cup {Append(q, x) : q \in {r \in shorter : Len(r) = n - 1}, x \in S}

LogTexts == {join(ls) : ls \in SeqsUpTo(LineCatalogue, MaxLines) \ {<<>>}}

TrackedPaths == {"meta.vendor", "security.qber_total"}
LlmValues == {Null, Str(<<"A">>), Num(20)}
LlmEntries ==
    { [field |-> "meta.vendor", snippet |-> <<"v">>, confidence_score |-> Num(900)],
      [field |-> "link.distance_km", snippet |-> <<"d">>, confidence_score |-> Num(500)] }
LlmResults ==
    [fields : [TrackedPaths -> LlmValues],
     _provenance : {[present |-> FALSE, entries |-> <<>>]}
                   \cup [present : {TRUE}, entries : SeqsUpTo(LlmEntries, MaxLow)]]

NotCalled == [completion |-> "none"]
NoPre == [completion |-> "none", preParsedData |-> EmptyPreParsed, remainingLogs |-> <<>>]
NoLlm == [fields |-> [p \in TrackedPaths |-> Undefined],
          _provenance |-> [present |-> FALSE, entries |-> <<>>]]

\* normalizeLogs up to its await: the pre-parse; a throw lands in the catch
\* clause, which rethrows
PreParse ==
    /\ stage = "start"
    /\ pre' = preParseWithRegex(logs)
    /\ stage' = IF pre'.completion = "throw" THEN "rejected" ELSE "awaiting"
    /\ UNCHANGED <<logs, llmResult, norm, data, skr, callVars, appVars>>

\* the LLM answers with a record: it is reconciled and returned
LlmResponds ==
    /\ stage = "awaiting"
    /\ \E r \in LlmResults :
          /\ llmResult' = r
          /\ norm' = Reconcile(pre.preParsedData, r)
    /\ stage' = "returned"
    /\ UNCHANGED <<logs, pre, data, skr, callVars, appVars>>

\* the object llmResult refers to, once normalizeLogs has returned: line 120
\* assigns the reconciled list to llmResult._provenance itself and line 122
\* returns that same object
llmResultAfter == norm

\* the LLM call fails, its text is not JSON, or the parsed value cannot be
\* reconciled (null, or a _provenance that is no array): the catch clause
\* rethrows
LlmFails ==
    /\ stage = "awaiting"
    /\ stage' = "rejected"
    /\ UNCHANGED <<logs, pre, llmResult, norm, data, skr, callVars, appVars>>

\* string | null, as the App keeps error and processingStep
NullString == [isNull |-> TRUE, text |-> ""]
StringOf(text) == [isNull |-> FALSE, text |-> text]

\* AppOutput | null; session_id stands for the run that assembled the output
NullOutput ==
    [isNull |-> TRUE, normalized_data |-> NoLlm, validation_results |-> "none",
     finite_key_skr |-> FailureResult(NoError, <<>>), session_id |-> 0]

\* the useState initial values
InitialApp ==
    [view |-> "home", rawLogs |-> <<>>, appOutput |-> NullOutput,
     error |-> NullString, processingStep |-> NullString]

NoRequest == [kind |-> "none", run |-> 0]

AppIdle ==
    /\ app = InitialApp
    /\ runs = <<>>
    /\ requested = NoRequest

NoCalls ==
    /\ extractCalls = <<>>
    /\ skrCalls = <<>>

NormIdle ==
    /\ logs = <<>>
    /\ stage = "idle"
    /\ pre = NoPre
    /\ llmResult = NoLlm
    /\ norm = NoLlm

InitNormalize ==
    /\ logs \in LogTexts
    /\ stage = "start"
    /\ pre = NoPre
    /\ llmResult = NoLlm
    /\ norm = NoLlm
    /\ data = NullData
    /\ skr = NotCalled
    /\ NoCalls
    /\ AppIdle

NextNormalize == PreParse \/ LlmResponds \/ LlmFails

SpecNormalize == InitNormalize /\ [][NextNormalize]_vars

(***************************************************************************)
(* preParseWithRegex on its own, on a wider range of texts: up to          *)
(* MaxExtractLines lines of ExtractLines, and one-line texts               *)
(* "sifted_bits:" followed by any value of up to MaxValueLen characters of *)
(* ValueAlphabet.                                                          *)
(***************************************************************************)
MaxExtractLines == 3
MaxValueLen == 3

ExtractLines ==
    LineCatalogue
    \cup { <<" ", " ", "x", " ">>, <<" ", "k", " ", ":", "v", " ">>,
           <<"s", "i", "f", "t", "e", "d", "_", "b", "i", "t", "s", ":", " ",
             "1", "_", "0", "5", "0", "_", "0", "0", "0">> }

ValueAlphabet == {"0", "1", "_", ".", "-", " ", "a"}
ValueStrings == SeqsUpTo(ValueAlphabet, MaxValueLen)
ValueKey == <<"s", "i", "f", "t", "e", "d", "_", "b", "i", "t", "s", ":">>

ExtractTexts ==
    {join(ls) : ls \in SeqsUpTo(ExtractLines, MaxExtractLines) \ {<<>>}}
    \cup {ValueKey \o v : v \in ValueStrings}

InitExtract ==
    /\ logs \in ExtractTexts
    /\ stage = "start"
    /\ pre = NoPre
    /\ llmResult = NoLlm
    /\ norm = NoLlm
    /\ data = NullData
    /\ skr = NotCalled
    /\ NoCalls
    /\ AppIdle

NextExtract == PreParse

SpecExtract == InitExtract /\ [][NextExtract]_vars

(***************************************************************************)
(* The calculator's inputs.  Values are in units of 1/Scale: Num(20) is a  *)
(* QBER of 0.02, Num(250) an epsilon of 0.25.                              *)
(***************************************************************************)
SVals == {Undefined, Null, Num(0), Num(50 * Scale)}
QVals == {Undefined, Num(-50), Num(0), Num(20), Num(100), Num(110), Num(111), Num(500)}
NVals == {Undefined, Num(0), Num(Scale), Num(100 * Scale)}
EpsVals == {Undefined, Num(0), Num(1), Num(250), Num(-500)}
SingleEpsVals == {Undefined, Num(0), Num(1)}
BetaVals == {Undefined, Null, Num(0), Num(Scale), Num(1200)}

SecurityObjects ==
    [present : {TRUE}, sifted_key_rate_bps : SVals, qber_total : QVals, sifted_bits : NVals,
     epsilon_sec : EpsVals, epsilon_cor : EpsVals, epsilon : SingleEpsVals]
DvObjects == [present : {TRUE}, ec_efficiency_beta : BetaVals]

DataValues ==
    {NullData}
    \cup [isNull : {FALSE},
          security : {NullData.security} \cup SecurityObjects,
          dv_specific : {NullData.dv_specific} \cup DvObjects]

\* one call of calculateSecureSKR_deterministic on the record
Calculate ==
    /\ skr.completion = "none"
    /\ skr' = calculateSecureSKR_deterministic(data)
    /\ UNCHANGED <<data, normVars, callVars, appVars>>

InitSKR ==
    /\ data \in DataValues
    /\ skr = NotCalled
    /\ NormIdle
    /\ NoCalls
    /\ AppIdle

NextSKR == Calculate

SpecSKR == InitSKR /\ [][NextSKR]_vars

(***************************************************************************)
(* Repeated calls: preParseWithRegex and the calculator are called again   *)
(* and again, in any order, on texts and records of two small sets; each   *)
(* call is recorded with its input and its output, in call order.          *)
(***************************************************************************)
MaxCalls == 3

RepeatTexts ==
    { <<"v", "e", "n", "d", "o", "r", ":", " ", "A">>,
      join(<< <<"n", "o", "t", "e", ":", " ", "x">>,
              <<"q", "b", "e", "r", "_", "t", "o", "t", "a", "l", ":", " ", "0", ".", "0", "2">> >>),
      <<"a", ",", "b">>,
      <<"c", "o", "n", "s", "t", "r", "u", "c", "t", "o", "r", ":", " ", "x">> }

RepeatData ==
    { NullData,
      [isNull |-> FALSE, security |-> NullData.security, dv_specific |-> NullData.dv_specific],
      [isNull |-> FALSE,
       security |-> [present |-> TRUE, sifted_key_rate_bps |-> Num(50 * Scale),
                     qber_total |-> Num(20), sifted_bits |-> Num(100 * Scale),
                     epsilon_sec |-> Undefined, epsilon_cor |-> Undefined,
                     epsilon |-> Num(1)],
       dv_specific |-> NullData.dv_specific],
      [isNull |-> FALSE,
       security |-> [present |-> TRUE, sifted_key_rate_bps |-> Num(50 * Scale),
                     qber_total |-> Num(500), sifted_bits |-> Num(100 * Scale),
                     epsilon_sec |-> Num(1), epsilon_cor |-> Num(1),
                     epsilon |-> Undefined],
       dv_specific |-> [present |-> TRUE, ec_efficiency_beta |-> Num(1200)]] }

CallRecord(input, output) == [input |-> input, output |-> output]

\* one more call of preParseWithRegex
CallExtract ==
    /\ Len(extractCalls) + Len(skrCalls) < MaxCalls
    /\ \E text \in RepeatTexts :
          /\ logs' = text
          /\ pre' = preParseWithRegex(text)
          /\ extractCalls' = Append(extractCalls, CallRecord(text, pre'))
    /\ UNCHANGED <<stage, llmResult, norm, data, skr, skrCalls, appVars>>

\* one more call of calculateSecureSKR_deterministic
CallCompute ==
    /\ Len(extractCalls) + Len(skrCalls) < MaxCalls
    /\ \E d \in RepeatData :
          /\ data' = d
          /\ skr' = calculateSecureSKR_deterministic(d)
          /\ skrCalls' = Append(skrCalls, CallRecord(d, skr'))
    /\ UNCHANGED <<normVars, extractCalls, appVars>>

InitRepeat ==
    /\ data = NullData
    /\ skr = NotCalled
    /\ NormIdle
    /\ NoCalls
    /\ AppIdle

NextRepeat == CallExtract \/ CallCompute

SpecRepeat == InitRepeat /\ [][NextRepeat]_vars

(***************************************************************************)
(* The App component: runPipeline, and the handlers that start a run and   *)
(* reset the page.  A call of runPipeline runs up to its first await, then *)
(* resumes when normalizeLogs settles, then when validateData settles;     *)
(* between these steps the user can act and other runs can move.  The      *)
(* normalized record of a run is kept in two parts: the paths the merge    *)
(* is about (record) and the sections the calculator reads (sections).     *)
(***************************************************************************)
MaxRuns == 2

AppTexts ==
    { <<"v", "e", "n", "d", "o", "r", ":", " ", "A">>,
      <<"c", "o", "n", "s", "t", "r", "u", "c", "t", "o", "r", ":", " ", "x">> }
TypedTexts == AppTexts \cup { <<" ">> }
SampleTexts ==
    { <<"{", "a", ":", "1", "}">>,
      <<"v", "e", "n", "d", "o", "r", ":", " ", "A">> }

\* what the LLM can answer to a normalization request
AppResponses ==
    { [record |->
          [fields |-> [p \in TrackedPaths |->
                          IF p = "meta.vendor" THEN Str(<<"A">>) ELSE Num(20)],
           _provenance |->
              [present |-> TRUE,
               entries |-> << [field |-> "meta.vendor", snippet |-> <<"v">>,
                               confidence_score |-> Num(900)] >>]],
       sections |->
          [isNull |-> FALSE,
           security |-> [present |-> TRUE, sifted_key_rate_bps |-> Num(50 * Scale),
                         qber_total |-> Num(20), sifted_bits |-> Num(100 * Scale),
                         epsilon_sec |-> Undefined, epsilon_cor |-> Undefined,
                         epsilon |-> Num(1)],
           dv_specific |-> NullData.dv_specific]],
      [record |->
          [fields |-> [p \in TrackedPaths |-> Null],
           _provenance |-> [present |-> FALSE, entries |-> <<>>]],
       sections |->
          [isNull |-> FALSE, security |-> NullData.security,
           dv_specific |-> NullData.dv_specific]] }

NoNormData == [record |-> NoLlm, sections |-> NullData]

\* a call of runPipeline(logs) that has been requested: pc is "timer" while
\* the setTimeout of loadSampleAndStart is pending
NewRun(text) ==
    [logs |-> text, pc |-> "timer", pre |-> NoPre, response |-> NoNormData,
     normData |-> NoNormData, calcInput |-> NullData, calcDone |-> 0,
     stages |-> <<>>, outcome |-> "none"]

\* runPipeline up to its first await: normalizeLogs runs preParseWithRegex
\* and sends the request; a throw of the pre-parse rejects at once.
\* p is what preParseWithRegex(run.logs) gave.
RunBegun(run, p) ==
    IF p.completion = "throw"
    THEN [run EXCEPT !.pc = "ended", !.pre = p, !.stages = <<"extract">>,
                     !.outcome = "failure"]
    ELSE [run EXCEPT !.pc = "normalizing", !.pre = p,
                     !.stages = <<"extract", "enrich">>]

\* normalizeLogs resolves: the response is reconciled, validateData is called
RunNormalized(run, response) ==
    [run EXCEPT !.pc = "validating",
                !.response = response,
                !.normData = [record |-> Reconcile(run.pre.preParsedData, response.record),
                              sections |-> response.sections],
                !.stages = @ \o <<"merge", "validate">>]

\* normalizeLogs rejects: the catch clause of runPipeline ends the run
RunNormalizeRejected(run) == [run EXCEPT !.pc = "ended", !.outcome = "failure"]

\* validateData resolves: the calculator runs on normData
RunValidated(run) ==
    [run EXCEPT !.pc = "ended", !.calcInput = run.normData.sections,
                !.calcDone = @ + 1,
                !.stages = @ \o <<"calculate">>, !.outcome = "success"]

\* mutant: the calculator still runs after validateData has rejected
RunValidateRejected_Calculates(run) ==
    [run EXCEPT !.pc = "ended", !.calcInput = run.normData.sections,
                !.calcDone = @ + 1,
                !.stages = @ \o <<"calculate">>, !.outcome = "failure"]

\* validateData rejects: the catch clause of runPipeline ends the run
RunValidateRejected(run) == [run EXCEPT !.pc = "ended", !.outcome = "failure"]

\* the setState calls of runPipeline, by the place they are made
AppProcessing(a) ==
    [a EXCEPT !.view = "processing", !.error = NullString, !.appOutput = NullOutput,
              !.processingStep = StringOf("Normalizing vendor logs...")]
AppValidating(a) ==
    [a EXCEPT !.processingStep = StringOf("Validating against compliance rules...")]
AppSucceeded(a, output) ==
    [a EXCEPT !.appOutput = output, !.view = "results", !.processingStep = NullString]
AppFailed(a, message) ==
    [a EXCEPT !.error = StringOf(message), !.view = "results", !.processingStep = NullString]

\* the AppOutput runPipeline assembles
FinalOutput(i, run, skrCalc) ==
    [isNull |-> FALSE, normalized_data |-> run.normData.record,
     validation_results |-> "validationResults",
     finite_key_skr |-> skrCalc,
     session_id |-> i]

\* the call runPipeline(logs) of run i, up to its first await
BeginRun(i, run) ==
    \E p \in {preParseWithRegex(run.logs)} : \E begun \in {RunBegun(run, p)} :
       /\ runs' = IF i > Len(runs) THEN Append(runs, begun) ELSE [runs EXCEPT ![i] = begun]
       /\ app' = IF begun.pc = "ended"
                 THEN AppFailed(AppProcessing(app),
                                "path.split is not a function Please check the input format and try again.")
                 ELSE AppProcessing(app)

\* the textarea's onChange (typing, pasting, or a file read): HomeView only
setRawLogs ==
    /\ app.view = "home"
    /\ \E text \in TypedTexts : app' = [app EXCEPT !.rawLogs = text]
    /\ UNCHANGED <<runs, requested, data, skr, normVars, callVars>>

\* "Analyze & Report": HomeView only, and not on blank logs
startRun ==
    /\ app.view = "home"
    /\ Trim(app.rawLogs) # <<>>
    /\ Len(runs) < MaxRuns
    /\ \E text \in {app.rawLogs} : BeginRun(Len(runs) + 1, NewRun(text))
    /\ requested' = [kind |-> "run", run |-> Len(runs) + 1]
    /\ UNCHANGED <<data, skr, normVars, callVars>>

\* a sample button: the logs are set and runPipeline is left to a timer
loadSampleAndStart ==
    /\ app.view = "home"
    /\ Len(runs) < MaxRuns
    /\ \E text \in SampleTexts :
          /\ app' = [app EXCEPT !.rawLogs = text]
          /\ runs' = Append(runs, NewRun(text))
    /\ requested' = [kind |-> "run", run |-> Len(runs) + 1]
    /\ UNCHANGED <<data, skr, normVars, callVars>>

\* the timer of loadSampleAndStart fires: runPipeline(logs)
TimeoutFires(i) ==
    /\ runs[i].pc = "timer"
    /\ \E run \in {runs[i]} : BeginRun(i, run)
    /\ UNCHANGED <<requested, data, skr, normVars, callVars>>

\* normalizeLogs of run i resolves
NormalizeResolves(i) ==
    /\ runs[i].pc = "normalizing"
    /\ \E run \in {runs[i]}, response \in AppResponses :
          runs' = [runs EXCEPT ![i] = RunNormalized(run, response)]
    /\ app' = AppValidating(app)
    /\ UNCHANGED <<requested, data, skr, normVars, callVars>>

\* normalizeLogs of run i rejects (the request failed, or the answer was
\* not a JSON object)
NormalizeRejects(i) ==
    /\ runs[i].pc = "normalizing"
    /\ runs' = [runs EXCEPT ![i] = RunNormalizeRejected(runs[i])]
    /\ app' = AppFailed(app, "Failed to normalize logs. Please check the input format and try again.")
    /\ UNCHANGED <<requested, data, skr, normVars, callVars>>

\* validateData of run i resolves: the calculation, the output, the results
\* view, and the finally clause
ValidateResolves(i) ==
    /\ runs[i].pc = "validating"
    /\ \E run \in {runs[i]} :
          \E skrCalc \in {calculateSecureSKR_deterministic(run.normData.sections)} :
             /\ runs' = [runs EXCEPT ![i] = RunValidated(run)]
             /\ app' = AppSucceeded(app, FinalOutput(i, run, skrCalc.result))
    /\ UNCHANGED <<requested, data, skr, normVars, callVars>>

\* validateData of run i rejects
ValidateRejects(i) ==
    /\ runs[i].pc = "validating"
    /\ runs' = [runs EXCEPT ![i] = RunValidateRejected(runs[i])]
    /\ app' = AppFailed(app, "Failed to validate data.")
    /\ UNCHANGED <<requested, data, skr, normVars, callVars>>

\* "New Run", in the navigation bar of every view
handleNewRun ==
    /\ app' = [app EXCEPT !.view = "home", !.rawLogs = <<>>, !.appOutput = NullOutput,
                          !.error = NullString, !.processingStep = NullString]
    /\ requested' = [kind |-> "newRun", run |-> 0]
    /\ UNCHANGED <<runs, data, skr, normVars, callVars>>

InitApp ==
    /\ AppIdle
    /\ data = NullData
    /\ skr = NotCalled
    /\ NormIdle
    /\ extractCalls = <<>>
    /\ skrCalls = <<>>

NextApp ==
    \/ setRawLogs
    \/ startRun
    \/ loadSampleAndStart
    \/ handleNewRun
    \/ \E i \in 1..Len(runs) : TimeoutFires(i)
    \/ \E i \in 1..Len(runs) : NormalizeResolves(i)
    \/ \E i \in 1..Len(runs) : NormalizeRejects(i)
    \/ \E i \in 1..Len(runs) : ValidateResolves(i)
    \/ \E i \in 1..Len(runs) : ValidateRejects(i)

SpecApp == InitApp /\ [][NextApp]_vars

(***************************************************************************)
(* Claims about the calculator (specification SpecSKR).                    *)
(***************************************************************************)
Called == skr.completion # "none"
Failed == Called /\ skr.completion = "return" /\ skr.result.error.kind # "none"
Succeeded == Called /\ skr.completion = "return" /\ skr.result.error.kind = "none"

\* the inputs as the claims describe their resolution: epsilon stands in for
\* eps_sec and eps_cor when it is used (both absent), beta has its default
SingleEpsUsed ==
    /\ ~data.isNull
    /\ Truthy(SecurityField(data, "epsilon"))
    /\ EqNull(SecurityField(data, "epsilon_sec"))
    /\ EqNull(SecurityField(data, "epsilon_cor"))
Resolved(f) ==
    IF f \in {"epsilon_sec", "epsilon_cor"} /\ SingleEpsUsed
    THEN SecurityField(data, "epsilon") ELSE SecurityField(data, f)
BetaAbsent == EqNull(DvField(data, "ec_efficiency_beta"))
ResolvedBeta == IF BetaAbsent THEN Num(BETA_DEFAULT) ELSE DvField(data, "ec_efficiency_beta")
MessageName(f) ==
    CASE f = "sifted_key_rate_bps" -> "security.sifted_key_rate_bps"
      [] f = "qber_total" -> "security.qber_total"
      [] f = "sifted_bits" -> "security.sifted_bits"
      [] f = "epsilon_sec" -> "security.epsilon_sec (or epsilon)"
      [] f = "epsilon_cor" -> "security.epsilon_cor (or epsilon)"
RequiredFields == {"sifted_key_rate_bps", "qber_total", "sifted_bits", "epsilon_sec", "epsilon_cor"}
Unresolved == {f \in RequiredFields : EqNull(Resolved(f))}

\* C1: computeSKR is total: every call, on any record (null, or with security
\* or dv_specific absent), completes by returning a result and never by
\* throwing; whenever the computation cannot be carried out (null record,
\* unresolved input, QBER above the limit) the result has error set and
\* R_secure_bps = null.
C1_Total ==
    Called =>
        /\ skr.completion = "return"
        /\ (data.isNull \/ Unresolved # {} \/ FGt(Resolved("qber_total"), Num(QBER_LIMIT)))
              => /\ skr.result.error.kind # "none"
                 /\ skr.result.R_secure_bps = Null
        /\ skr.result.error.kind # "none" => skr.result.R_secure_bps = Null

\* C1 witness: a call on the null record has returned an error result
C1_Witness ==
    /\ Called /\ data.isNull
    /\ skr.completion = "return" /\ skr.result.error.kind = "TypeError"

\* C2: when a required input is still unresolved after the epsilon fallback
\* and the beta default, the call fails with the input-validation error whose
\* message names every missing field exactly once, R_secure_bps = null and
\* inputs = {}; a record whose security section is empty names all five.
C2_MissingFieldsAllNamed ==
    (Called /\ ~data.isNull /\ Unresolved # {}) =>
        /\ skr.result.error.kind = "missing"
        /\ Range(skr.result.error.missing) = {MessageName(f) : f \in Unresolved}
        /\ Len(skr.result.error.missing) = Cardinality(Unresolved)
        /\ skr.result.R_secure_bps = Null
        /\ DOMAIN skr.result.inputs = {}
        /\ (\A f \in RequiredFields \cup {"epsilon"} : EqNull(SecurityField(data, f)))
              => Len(skr.result.error.missing) = 5

\* C2 witness: a call on a record with an empty security section has failed
\* naming five fields
C2_Witness ==
    /\ Called /\ ~data.isNull /\ data.security.present
    /\ \A f \in RequiredFields \cup {"epsilon"} : EqNull(SecurityField(data, f))
    /\ Len(skr.result.error.missing) = 5

\* C3: with every required input resolved, the call fails with the
\* security-limit error, citing Q, exactly when Q > 0.11; at Q = 0.11 and
\* below the check passes and the computation proceeds to a result without
\* error.
C3_ThresholdExactlyAboveLimit ==
    (Called /\ ~data.isNull /\ Unresolved = {}) =>
        LET Q == Resolved("qber_total")
        IN /\ (Q.v > QBER_LIMIT) <=> (skr.result.error.kind = "threshold")
           /\ (Q.v > QBER_LIMIT) =>
                 /\ skr.result.error.Q = Q
                 /\ skr.result.R_secure_bps = Null
           /\ (Q.v <= QBER_LIMIT) =>
                 /\ skr.result.error.kind = "none"
                 /\ skr.result.R_secure_bps # Null

\* C3 witness: a call with Q exactly at the limit has succeeded
C3_Witness ==
    /\ Succeeded
    /\ skr.result.inputs.Q = Num(QBER_LIMIT)

\* the entries the claims expect for the defaults and for the six inputs
ExpectedDefaultEntries ==
    (IF SingleEpsUsed
     THEN <<[step |-> "Epsilon", value |-> SecurityField(data, "epsilon"),
             formula |-> "Used single epsilon for both sec/cor"]>>
     ELSE <<>>)
    \o (IF BetaAbsent
        THEN <<[step |-> "EC Efficiency (beta)", value |-> Num(BETA_DEFAULT),
                formula |-> "Default value assumed"]>>
        ELSE <<>>)
ExpectedInputEntries ==
    << [step |-> "Sifted Rate (S)", value |-> Resolved("sifted_key_rate_bps"), formula |-> "Input"],
       [step |-> "QBER (Q)", value |-> Resolved("qber_total"), formula |-> "Input"],
       [step |-> "EC Efficiency (beta)", value |-> ResolvedBeta, formula |-> "Input or Default"],
       [step |-> "Block Size (N)", value |-> Resolved("sifted_bits"), formula |-> "Input"],
       [step |-> "eps_sec", value |-> Resolved("epsilon_sec"), formula |-> "Input"],
       [step |-> "eps_cor", value |-> Resolved("epsilon_cor"), formula |-> "Input"] >>

\* C4: a failing call returns exactly the trace entries appended before the
\* failure, in order: none when the record itself cannot be read, the
\* default/substitution entries on a missing-field failure, those followed by
\* the six input entries on a threshold failure, and no later entry.
C4_TraceKeptOnFailure ==
    Failed =>
        /\ skr.result.error.kind = "TypeError" => skr.result.trace = <<>>
        /\ skr.result.error.kind = "missing" => skr.result.trace = ExpectedDefaultEntries
        /\ skr.result.error.kind = "threshold" =>
              skr.result.trace = ExpectedDefaultEntries \o ExpectedInputEntries

\* C4 witness: a threshold failure whose trace holds both default entries and
\* the six input entries
C4_Witness ==
    /\ Failed /\ skr.result.error.kind = "threshold"
    /\ SingleEpsUsed /\ BetaAbsent
    /\ Len(skr.result.trace) = 8

\* the value of the R_secure_bits trace entry of a successful call, and the
\* unclamped rate (R_secure_bits / N) * S_bps
TracedSecureBits == skr.result.trace[Len(skr.result.trace) - 1].value
UnclampedRate ==
    FMul(FDiv(TracedSecureBits, skr.result.inputs.N), skr.result.inputs.S_bps)

\* inputs in their physical range: 0 <= Q <= 0.11, 0 < eps < 1, N >= 0, S >= 0
InRange ==
    /\ Succeeded
    /\ skr.result.inputs.Q.v >= 0
    /\ skr.result.inputs.eps_sec.v > 0 /\ skr.result.inputs.eps_sec.v < Scale
    /\ skr.result.inputs.eps_cor.v > 0 /\ skr.result.inputs.eps_cor.v < Scale
    /\ skr.result.inputs.N.v >= 0 /\ skr.result.inputs.S_bps.v >= 0

\* C5: a call that returns without error reports a rate that is never
\* negative: (R_secure_bits / N) * S_bps when that is >= 0, and 0 when
\* R_secure_bits < 0, for every resolved input (N = 0 and S_bps = 0 included).
\* Stated here for the inputs in their physical range only, which is where
\* the code departs from it: N = 0 with S_bps = 0 gives -Infinity * 0 = NaN,
\* which the clamp (NaN < 0 is false) lets through.
C5_RateClampedAtZero ==
    InRange =>
        /\ ~FLt(skr.result.R_secure_bps, Num(0))
        /\ FGe(UnclampedRate, Num(0)) => skr.result.R_secure_bps = UnclampedRate
        /\ FLt(TracedSecureBits, Num(0)) => skr.result.R_secure_bps = Num(0)

\* a resolved input outside the domain of the arithmetic: an epsilon that is
\* not positive (log2 of 1/eps) or a negative Q (sqrt of N*Q*(1-Q))
DomainError ==
    \/ FLe(Resolved("epsilon_sec"), Num(0))
    \/ FLe(Resolved("epsilon_cor"), Num(0))
    \/ FLt(Resolved("qber_total"), Num(0))

\* C13: an arithmetic failure other than missing fields and the QBER
\* threshold (a domain error of log2 or sqrt caused by eps_sec <= 0,
\* eps_cor <= 0 or Q < 0) is reported: the result has error set and
\* R_secure_bps = null; no result without error carries a non-finite or
\* not-a-number R_secure_bps.
C13_ArithmeticFailureReported ==
    (Called /\ ~data.isNull /\ Unresolved = {}) =>
        /\ DomainError => (skr.result.error.kind # "none" /\ skr.result.R_secure_bps = Null)
        /\ Succeeded => skr.result.R_secure_bps.t = "num"

\* the values of JavaScript type number
IsNumber(x) == x.t \in {"num", "nan", "pinf", "ninf"}

\* C14: every result has one of two shapes.  Success: no error, R_secure_bps
\* is a number, inputs holds exactly the six resolved values S_bps, Q, beta,
\* N, eps_sec, eps_cor and intermediates exactly h2_Q, leakage_ec_bits,
\* finite_penalty_bits.  Failure: error set, R_secure_bps null, inputs and
\* intermediates both empty, also on the QBER threshold failure.  The
\* equation string is the same in both.  ("A number" is the type of the
\* field, number as opposed to null; whether the number is finite is C13.)
C14_TwoShapes ==
    Called =>
        /\ skr.completion = "return"
        /\ skr.result.equation = EQUATION
        /\ \/ /\ skr.result.error.kind = "none"
              /\ IsNumber(skr.result.R_secure_bps)
              /\ DOMAIN skr.result.inputs = {"S_bps", "Q", "beta", "N", "eps_sec", "eps_cor"}
              /\ skr.result.inputs.S_bps = Resolved("sifted_key_rate_bps")
              /\ skr.result.inputs.Q = Resolved("qber_total")
              /\ skr.result.inputs.beta = ResolvedBeta
              /\ skr.result.inputs.N = Resolved("sifted_bits")
              /\ skr.result.inputs.eps_sec = Resolved("epsilon_sec")
              /\ skr.result.inputs.eps_cor = Resolved("epsilon_cor")
              /\ \A f \in DOMAIN skr.result.inputs : IsNumber(skr.result.inputs[f])
              /\ DOMAIN skr.result.intermediates =
                    {"h2_Q", "leakage_ec_bits", "finite_penalty_bits"}
           \/ /\ skr.result.error.kind # "none"
              /\ skr.result.R_secure_bps = Null
              /\ DOMAIN skr.result.inputs = {}
              /\ DOMAIN skr.result.intermediates = {}

\* C14 witness: a QBER threshold failure, every input resolved, has returned
\* the failure shape with empty inputs
C14_Witness ==
    /\ Failed /\ skr.result.error.kind = "threshold"
    /\ Unresolved = {}
    /\ DOMAIN skr.result.inputs = {}
    /\ skr.result.R_secure_bps = Null

\* the record holds security.epsilon (any value, 0 included) and neither
\* security.epsilon_sec nor security.epsilon_cor
EpsilonAlone ==
    /\ ~data.isNull
    /\ ~EqNull(SecurityField(data, "epsilon"))
    /\ EqNull(SecurityField(data, "epsilon_sec"))
    /\ EqNull(SecurityField(data, "epsilon_cor"))

\* the trace entry that notes the substitution
IsEpsilonEntry(e) == e.step = "Epsilon"

\* the call got as far as the six input entries
InputsTraced == Called /\ skr.completion = "return" /\ skr.result.error.kind \in {"none", "threshold"}

\* C15: if epsilon_sec and epsilon_cor are both absent and epsilon is present
\* (any present value, 0 included), eps_sec and eps_cor are both set to
\* epsilon and one entry noting the substitution is appended before any
\* other entry; if eps_sec or eps_cor is present, epsilon is not used and
\* no substitution entry is recorded.
C15_EpsilonFallback ==
    (Called /\ ~data.isNull) =>
        LET trace == skr.result.trace
            eps == SecurityField(data, "epsilon")
        IN /\ EpsilonAlone =>
                 /\ trace # <<>>
                 /\ trace[1] = TraceEntry("Epsilon", eps, "Used single epsilon for both sec/cor")
                 /\ \A i \in 2..Len(trace) : ~IsEpsilonEntry(trace[i])
                 /\ "security.epsilon_sec (or epsilon)" \notin Range(skr.result.error.missing)
                 /\ "security.epsilon_cor (or epsilon)" \notin Range(skr.result.error.missing)
                 /\ InputsTraced =>
                       \E i, j \in 1..Len(trace) :
                           /\ trace[i] = TraceEntry("eps_sec", eps, "Input")
                           /\ trace[j] = TraceEntry("eps_cor", eps, "Input")
           /\ ~EpsilonAlone =>
                 /\ \A i \in 1..Len(trace) : ~IsEpsilonEntry(trace[i])
                 /\ InputsTraced =>
                       \E i, j \in 1..Len(trace) :
                           /\ trace[i] = TraceEntry("eps_sec", SecurityField(data, "epsilon_sec"), "Input")
                           /\ trace[j] = TraceEntry("eps_cor", SecurityField(data, "epsilon_cor"), "Input")

BetaDefaultEntry == TraceEntry("EC Efficiency (beta)", Num(BETA_DEFAULT), "Default value assumed")
MissingNames == {MessageName(f) : f \in RequiredFields}

\* C16: if dv_specific.ec_efficiency_beta is absent (null, undefined, or
\* dv_specific missing) beta = 1.1 is used and an entry noting the default is
\* appended, after the epsilon-substitution entry if any and before the
\* missing-field check; a present beta is used unchanged and adds no default
\* entry; an absent beta is never reported as a missing field.
C16_BetaDefault ==
    (Called /\ ~data.isNull) =>
        LET trace == skr.result.trace
            k == IF trace # <<>> /\ IsEpsilonEntry(trace[1]) THEN 2 ELSE 1
            beta0 == DvField(data, "ec_efficiency_beta")
        IN /\ BetaAbsent =>
                 /\ Len(trace) >= k
                 /\ trace[k] = BetaDefaultEntry
                 /\ \A i \in 1..Len(trace) : trace[i] = BetaDefaultEntry => i = k
                 /\ InputsTraced =>
                       trace[k + 3] = TraceEntry("EC Efficiency (beta)", Num(BETA_DEFAULT),
                                                 "Input or Default")
                 /\ Succeeded => skr.result.inputs.beta = Num(BETA_DEFAULT)
           /\ ~BetaAbsent =>
                 /\ \A i \in 1..Len(trace) : trace[i].formula # "Default value assumed"
                 /\ InputsTraced =>
                       trace[k + 2] = TraceEntry("EC Efficiency (beta)", beta0, "Input or Default")
                 /\ Succeeded => skr.result.inputs.beta = beta0
           /\ Range(skr.result.error.missing) \subseteq MissingNames

\* C16 witness: a call without beta failed on a missing field, and its trace
\* ends with the default entry, after the epsilon entry
C16_Witness ==
    /\ Failed /\ skr.result.error.kind = "missing"
    /\ BetaAbsent /\ SingleEpsUsed
    /\ Len(skr.result.trace) = 2
    /\ skr.result.trace[2] = BetaDefaultEntry

InputSteps == <<"Sifted Rate (S)", "QBER (Q)", "EC Efficiency (beta)", "Block Size (N)",
                "eps_sec", "eps_cor">>
StageSteps == <<"h2(Q)", "Leak_EC", "Delta (Penalty)", "R_secure_bits", "R_secure_bps">>

\* C17: the trace of a successful call is, in this order: optionally the
\* epsilon-substitution entry, optionally the beta-default entry, the six
\* input entries in the order S, Q, beta, N, eps_sec, eps_cor, then exactly
\* one entry per computation stage in the order h2(Q), Leak_EC, Delta
\* penalty, R_secure_bits, R_secure_bps; the last entry's value is the
\* returned R_secure_bps.
C17_TraceOrder ==
    Succeeded =>
        LET trace == skr.result.trace
            opt == ExpectedDefaultEntries
            n == Len(opt)
        IN /\ Len(trace) = n + 11
           /\ SubSeq(trace, 1, n) = opt
           /\ n <= 2
           /\ (n = 2 => IsEpsilonEntry(trace[1]) /\ trace[2] = BetaDefaultEntry)
           /\ (n = 1 => IsEpsilonEntry(trace[1]) \/ trace[1] = BetaDefaultEntry)
           /\ SubSeq(trace, n + 1, n + 6) = ExpectedInputEntries
           /\ \A i \in 1..6 : trace[n + i].step = InputSteps[i]
           /\ \A i \in 1..5 : trace[n + 6 + i].step = StageSteps[i]
           /\ trace[n + 7].value = skr.result.intermediates.h2_Q
           /\ trace[n + 8].value = skr.result.intermediates.leakage_ec_bits
           /\ trace[n + 9].value = skr.result.intermediates.finite_penalty_bits
           /\ trace[n + 11].value = skr.result.R_secure_bps

\* C17 witness: a successful call with both optional entries: thirteen
\* entries, the last one holding a positive rate
C17_Witness ==
    /\ Succeeded
    /\ SingleEpsUsed /\ BetaAbsent
    /\ Len(skr.result.trace) = 13
    /\ FGt(skr.result.trace[13].value, Num(0))

(***************************************************************************)
(* Claims about the pre-extractor and the provenance merge (specification  *)
(* SpecNormalize).                                                          *)
(***************************************************************************)
PreParsed == stage \in {"awaiting", "returned", "rejected"}
Extracted == PreParsed /\ pre.completion = "return"
InputLines == Range(split(logs))
FirstLine(text) ==
    IF indexOf(text, "\n") = 0 THEN text ELSE SubSeq(text, 1, indexOf(text, "\n") - 1)

\* the guard as the claims state it: the trimmed input is wrapped in braces
\* or in brackets, or the first line of the input holds a comma
GuardCondition ==
    LET t == Trim(logs)
    IN \/ t # <<>> /\ t[1] = "{" /\ t[Len(t)] = "}"
       \/ t # <<>> /\ t[1] = "[" /\ t[Len(t)] = "]"
       \/ "," \in Range(FirstLine(logs))

\* a line of the form "key: value" whose normalised key is in the table
Recognised(line) == Matches(line) /\ MatchKey(line) \in DOMAIN keyMap
PathOf(line) == keyMap[MatchKey(line)]

HighTrust == pre.preParsedData._provenance
LowTrust == ProvenanceOrEmpty(llmResult._provenance)
Merged == norm._provenance.entries

\* C8: the merged provenance list holds every field path at most once, for
\* any highTrust and lowTrust list (a key on two lines, a path repeated by
\* the lowTrust list), and for a path in both lists the entry kept is the
\* highTrust one.
C8_MergedPathsUnique ==
    stage = "returned" =>
        /\ \A i, j \in 1..Len(Merged) : Merged[i].field = Merged[j].field => i = j
        /\ \A e \in Range(Merged) :
              (\E h \in Range(HighTrust) : h.field = e.field) => e \in Range(HighTrust)

\* C9: the merged provenance list is the highTrust list, unchanged and in
\* order, followed by the lowTrust entries whose path is not in the
\* highTrust list, in their order.
C9_MergedIsHighThenFilteredLow ==
    stage = "returned" =>
        /\ norm._provenance.present
        /\ Merged = HighTrust \o
              SelectSeq(LowTrust, LAMBDA l : \A h \in Range(HighTrust) : h.field # l.field)

\* C9 witness: a merge that kept one lowTrust entry and dropped another
C9_Witness ==
    /\ stage = "returned"
    /\ HighTrust # <<>>
    /\ Len(LowTrust) = 2
    /\ Len(Merged) = Len(HighTrust) + 1

\* C10: in the record normalize returns, every path the pre-extractor set
\* holds the pre-extractor's value, whatever the enrichment returned for it.
C10_PreExtractedValuesKept ==
    stage = "returned" =>
        \A p \in (DOMAIN pre.preParsedData.fields) \cap TrackedPaths :
            norm.fields[p] = pre.preParsedData.fields[p]

\* C12: the pre-extractor is total: for every input text (a line whose
\* normalised key is "constructor" or "__proto__", an empty input, a line
\* with an empty value) it returns a (partial, remaining) pair and raises
\* no error.
C12_ExtractorTotal ==
    PreParsed => pre.completion = "return"

\* C21: the pre-extractor, the merger and the calculator change none of
\* their arguments (the raw text, the highTrust record and its provenance
\* list, the lowTrust record and its provenance list, the canonical record);
\* each only builds and returns a new value.  For the merge: once it has
\* returned, the lowTrust record is what the enrichment delivered.
C21_ArgumentsUnchanged ==
    stage = "returned" => llmResultAfter = llmResult

(***************************************************************************)
(* Claims about the pre-extractor alone (specification SpecExtract).       *)
(***************************************************************************)
\* the lines the extractor cannot use, in input order, joined as they are
UnusedLines == SelectSeq(split(logs), LAMBDA line : ~Recognised(line))

IsDecimal(s) ==
    /\ \A i \in 1..Len(s) : s[i] \in Digits \cup {"."}
    /\ Cardinality({i \in 1..Len(s) : s[i] = "."}) <= 1
    /\ \E i \in 1..Len(s) : s[i] \in Digits
Unsigned(s) == IF s # <<>> /\ Head(s) \in {"-", "+"} THEN Tail(s) ELSE s
IsNumeric(s) ==
    LET u == Unsigned(s)
        e == indexOf(u, "e")
    IN IF e = 0 THEN IsDecimal(u)
       ELSE /\ IsDecimal(SubSeq(u, 1, e - 1))
            /\ Unsigned(SubSeq(u, e + 1, Len(u))) # <<>>
            /\ AllDigits(Unsigned(SubSeq(u, e + 1, Len(u))))

\* line i is the last line of the input that writes its path
LastWriter(lines, i) ==
    /\ Recognised(lines[i])
    /\ \A j \in (i + 1)..Len(lines) : Recognised(lines[j]) => PathOf(lines[j]) # PathOf(lines[i])

\* C19: for a recognised key the stored value is the number obtained from
\* the value with every '_' removed when that cleaned string parses as a
\* number ("1_050_000" is stored as 1050000), and otherwise the trimmed
\* original string with its underscores intact; an empty or whitespace-only
\* value is never stored as the number 0.
C19_ValueCoercion ==
    (Extracted /\ ~GuardCondition) =>
        LET lines == split(logs)
        IN \A i \in 1..Len(lines) :
              LastWriter(lines, i) =>
                  LET value == MatchValue(lines[i])
                      cleaned == Trim(RemoveUnderscores(value))
                      stored == pre.preParsedData.fields[PathOf(lines[i])]
                  IN /\ IsNumeric(cleaned) =>
                           /\ stored.t = "num"
                           /\ stored = ToNumber(cleaned)
                           /\ AllDigits(cleaned) => stored.v = DigitsValue(cleaned, 0) * Scale
                     /\ ~IsNumeric(cleaned) => stored = Str(value)
                     /\ value = <<>> => stored # Num(0)

\* C19 witness: "sifted_bits: 1_050_000" was stored as the number 1050000
C19_Witness ==
    /\ Extracted /\ ~GuardCondition
    /\ Len(split(logs)) = 1
    /\ Recognised(logs)
    /\ MatchValue(logs) = <<"1", "_", "0", "5", "0", "_", "0", "0", "0">>
    /\ pre.preParsedData.fields["security.sifted_bits"] = Num(1050000 * Scale)

\* the paths the extractor wrote: the fields it set and the provenance
\* entries it pushed
WrittenPaths ==
    DOMAIN pre.preParsedData.fields
    \cup {e.field : e \in Range(pre.preParsedData._provenance)}
KeysOf(path) == {k \in DOMAIN keyMap : keyMap[k] = path}

\* C20 as stated: every path the extractor writes corresponds to exactly
\* one entry of the key->path table (no two keys of the table map to the
\* same path) and is a value of that table.
C20_OneEntryPerPath_Original ==
    Extracted => \A p \in WrittenPaths : Cardinality(KeysOf(p)) = 1

\* C20 amended: every path the extractor writes is a value of the key->path
\* table, reached through the normalised key of an input line; a path may
\* be the value of more than one key (detector.count_rate_Mcps and
\* detector.max_Mcps each have two).
C20_OneEntryPerPath ==
    Extracted =>
        \A p \in WrittenPaths :
            /\ KeysOf(p) # {}
            /\ \E line \in InputLines : Recognised(line) /\ MatchKey(line) \in KeysOf(p)

\* C20 witness: the line "Max Mcps: 2" wrote detector.max_Mcps, a path that
\* two keys of the table map to
C20_Witness ==
    /\ Extracted
    /\ "detector.max_Mcps" \in WrittenPaths
    /\ Cardinality(KeysOf("detector.max_Mcps")) = 2

\* the recognised lines of the input, in input order
UsedLines == SelectSeq(split(logs), LAMBDA line : Recognised(line))

\* C23: when the guard does not fire, extract partitions the input lines:
\* each line gives either exactly one provenance entry (recognised key) or
\* exactly one line of remaining (before the final trim), never both and
\* never neither, so the number of provenance entries plus the number of
\* remaining lines is the number of input lines; the provenance entries are
\* in the order of their lines.
C23_LinesPartitioned ==
    (PreParsed /\ ~GuardCondition) =>
        LET provenance == pre.preParsedData._provenance
        IN /\ pre.completion = "return"
           /\ Len(provenance) = Len(UsedLines)
           /\ \A i \in 1..Len(provenance) :
                 /\ provenance[i].field = PathOf(UsedLines[i])
                 /\ provenance[i].snippet = Trim(UsedLines[i])
           /\ pre.remainingLogs = Trim(join(UnusedLines))
           /\ Len(provenance) + Len(UnusedLines) = Len(split(logs))

PipelineStages == <<"extract", "enrich", "merge", "validate", "calculate">>

IsPrefix(s, t) == /\ Len(s) <= Len(t)
                  /\ \A k \in 1..Len(s) : s[k] = t[k]

\* C22: within one pipeline run the stages execute strictly in the order
\* extractor, enrichment, merger, calculator, each on the previous stage's
\* output: the calculator is invoked at most once per run, only on the merged
\* record and never before the merger has produced it, and when an earlier
\* stage fails no later stage runs.
C22_StagesSequential ==
    \A i \in 1..Len(runs) :
        LET run == runs[i]
        IN /\ IsPrefix(run.stages, PipelineStages)
           /\ run.calcDone <= 1
           /\ run.calcDone = 1 =>
                 /\ run.stages = PipelineStages
                 /\ run.normData.record = Reconcile(run.pre.preParsedData, run.response.record)
                 /\ run.calcInput = run.normData.sections
           /\ run.calcDone = 0 => "calculate" \notin Range(run.stages)
           /\ run.outcome = "failure" =>
                 /\ run.calcDone = 0
                 /\ run.pre.completion = "throw" => run.stages = <<"extract">>
                 /\ "merge" \notin Range(run.stages) => "validate" \notin Range(run.stages)

C22_Witness ==
    /\ \E i \in 1..Len(runs) :
          /\ runs[i].outcome = "success"
          /\ runs[i].calcDone = 1
          /\ Len(runs[i].pre.preParsedData._provenance) > 0
    /\ \E i \in 1..Len(runs) :
          /\ runs[i].outcome = "failure"
          /\ runs[i].stages = <<"extract", "enrich", "merge", "validate">>

InFlight(run) == run.pc \in {"normalizing", "validating"}

\* C24: under any interleaving of the UI actions with the completion of
\* pipeline runs the state shown is that of the most recently requested
\* action: after New Run the home view with no output, no error and no
\* processing step; while the latest run is in flight the processing view
\* with its step; after the latest run has ended the results of that run.
C24_LatestRequestShown ==
    /\ requested.kind = "newRun" =>
          /\ app.view = "home"
          /\ app.appOutput.isNull
          /\ app.error.isNull
          /\ app.processingStep.isNull
    /\ requested.kind = "run" =>
          LET run == runs[requested.run]
          IN /\ InFlight(run) =>
                   /\ app.view = "processing"
                   /\ app.appOutput.isNull
                   /\ app.error.isNull
                   /\ ~app.processingStep.isNull
             /\ run.outcome = "success" =>
                   /\ app.view = "results"
                   /\ app.appOutput =
                         FinalOutput(requested.run, run,
                                     calculateSecureSKR_deterministic(run.calcInput).result)
                   /\ app.error.isNull
             /\ run.outcome = "failure" =>
                   /\ app.view = "results"
                   /\ app.appOutput.isNull
                   /\ ~app.error.isNull

\* ResultsView renders nothing while appOutput is null
ResultsRendered == app.view = "results" /\ ~app.appOutput.isNull

\* the error box inside the rendered results
ErrorVisible == ResultsRendered /\ ~app.error.isNull

\* no other run and no New Run since run i was requested
Undisturbed(i) == Len(runs) = i /\ i = 1 /\ requested = [kind |-> "run", run |-> i]

\* C25: when a run has ended, the view is 'results', processingStep is null
\* and exactly one of appOutput and error is non-null (appOutput on success,
\* error on failure), and the failure message is visible to the user in the
\* results view.
C25_RunEndsInResults ==
    \A i \in 1..Len(runs) :
        (Undisturbed(i) /\ runs[i].pc = "ended") =>
            /\ app.view = "results"
            /\ app.processingStep.isNull
            /\ app.appOutput.isNull # app.error.isNull
            /\ runs[i].outcome = "success" <=> ~app.appOutput.isNull
            /\ runs[i].outcome = "failure" => ErrorVisible

====
